---- MODULE Spec2Model ----
(***************************************************************************)
(* A model of pyqsub (src/pyqsub.py): the path normalizer isPath, the      *)
(* option-string builder make_optstr, the submitter submit() and the       *)
(* command-line entry point __run__().                                     *)
(*                                                                         *)
(* Strings that the code inspects character by character (dictionary keys, *)
(* module names, the output of qsub, path arguments) are sequences of      *)
(* one-character strings.  Strings that the code only concatenates (flags, *)
(* values, script text, file names) are TLA+ strings joined with \o.       *)
(***************************************************************************)
EXTENDS Integers, Sequences, FiniteSets, TLC

VARIABLES
    entry,          \* the function the behaviour calls
    pc,             \* position inside that function
    options,        \* dict of option values: sequence of <<key, value>>
    options_map,    \* dict of option flags: sequence of <<key, flag>>
    module_name,    \* submit(): module_name argument
    job_string,     \* submit(): job_string argument
    optstr,         \* make_optstr(): the returned string
    optlist,        \* make_optstr(): the list of tokens before the join
    qsub_script,    \* submit(): the script text, a sequence of lines
    files,          \* the working directory of submit(): file name -> content
    qsubCalls,      \* how many times the qsub executable was started
    qsubExit,       \* exit status of the qsub process ("none" before it ran)
    out,            \* captured standard output of qsub
    exc,            \* the exception that left the call ("none" if none)
    ret,            \* the value returned ("none", or "0" for submit's return 0)
    ARGPARSE,       \* module-level flag: argparse could be imported
    inputArgs,      \* __run__(): which of -j / -m the command line carries
    string,         \* isPath(): the argument
    disk,           \* isPath(): the filesystem, entry name -> "dir" | "file"
    disk0,          \* isPath(): the filesystem before the call
    pathResult      \* isPath(): the value returned or the error raised

vars == <<entry, pc, options, options_map, module_name, job_string, optstr,
          optlist, qsub_script, files, qsubCalls, qsubExit, out, exc, ret,
          ARGPARSE, inputArgs, string, disk, disk0, pathResult>>

(***************************************************************************)
(* Bounds of the model.                                                    *)
(***************************************************************************)
MaxOpts == 2        \* longest options / options_map dict of make_optstr runs
MaxOut == 4         \* longest qsub output, in characters
MaxStr == 3         \* longest isPath argument, in characters
MaxPmem == 4        \* largest qsub_pmem tried, in halves of a Gb

(***************************************************************************)
(* Python values.                                                          *)
(***************************************************************************)
PyVal(t, b, n, s, l) == [t |-> t, b |-> b, n |-> n, s |-> s, l |-> l]
PyBool(b)  == PyVal("bool", b, 0, "", <<>>)
PyInt(n)   == PyVal("int", FALSE, n, "", <<>>)
PyFloat(h) == PyVal("float", FALSE, h, "", <<>>)   \* h counts halves: 2.5 is 5
PyStr(s)   == PyVal("str", FALSE, 0, s, <<>>)
PyList(l)  == PyVal("list", FALSE, 0, "", l)       \* a list of plain strings
PyChars(c) == PyVal("chars", FALSE, 0, "", c)      \* a str kept as characters

\* bool(v): Python truthiness
Truthy(v) ==
    CASE v.t = "bool"  -> v.b
      [] v.t = "int"   -> v.n # 0
      [] v.t = "float" -> v.n # 0
      [] v.t = "str"   -> v.s # ""
      [] v.t = "list"  -> v.l # <<>>
      [] v.t = "chars" -> v.l # <<>>

Digit(d) ==
    CASE d = 0 -> "0" [] d = 1 -> "1" [] d = 2 -> "2" [] d = 3 -> "3"
      [] d = 4 -> "4" [] d = 5 -> "5" [] d = 6 -> "6" [] d = 7 -> "7"
      [] d = 8 -> "8" [] d = 9 -> "9"

RECURSIVE IntToStr(_)
IntToStr(n) ==
    IF n < 0 THEN "-" \o IntToStr(0 - n)
    ELSE IF n < 10 THEN Digit(n)
    ELSE IntToStr(n \div 10) \o Digit(n % 10)

\* sep.join(seq) for a sequence of strings
RECURSIVE Join(_, _)
Join(seq, sep) ==
    IF seq = <<>> THEN ""
    ELSE IF Len(seq) = 1 THEN seq[1]
    ELSE seq[1] \o sep \o Join(Tail(seq), sep)

\* ''.join(chars): a character sequence as one string
Concat(chars) == Join(chars, "")

\* repr of a list of strings, as str(list) prints it
ListRepr(l) == "[" \o Join([i \in 1..Len(l) |-> "'" \o l[i] \o "'"], ", ") \o "]"

\* str(v)
Str(v) ==
    CASE v.t = "bool"  -> (IF v.b THEN "True" ELSE "False")
      [] v.t = "int"   -> IntToStr(v.n)
      [] v.t = "float" -> IntToStr(v.n \div 2) \o (IF v.n % 2 = 0 THEN ".0" ELSE ".5")
      [] v.t = "str"   -> v.s
      [] v.t = "list"  -> ListRepr(v.l)
      [] v.t = "chars" -> Concat(v.l)

\* int(v) for a non-negative number: truncation
IntOf(v) ==
    CASE v.t = "float" -> v.n \div 2
      [] v.t = "int"   -> v.n
      [] v.t = "bool"  -> (IF v.b THEN 1 ELSE 0)

(***************************************************************************)
(* Dictionaries: a sequence of <<key, value>> pairs with distinct keys,    *)
(* in iteration order.                                                     *)
(***************************************************************************)
Keys(d) == [i \in 1..Len(d) |-> d[i][1]]
HasKey(d, k) == \E i \in 1..Len(d) : d[i][1] = k
Get(d, k) == d[CHOOSE i \in 1..Len(d) : d[i][1] = k][2]
DistinctKeys(d) == \A i, j \in 1..Len(d) : d[i][1] = d[j][1] => i = j

Range(seq) == {seq[i] : i \in 1..Len(seq)}

\* sub in s, for character sequences
Contains(sub, s) ==
    \E i \in 0..(Len(s) - Len(sub)) :
        \A j \in 1..Len(sub) : s[i + j] = sub[j]

\* The concatenation of a sequence of sequences
RECURSIVE Flatten(_)
Flatten(seqs) ==
    IF seqs = <<>> THEN <<>> ELSE Head(seqs) \o Flatten(Tail(seqs))

(***************************************************************************)
(* make_optstr                                                             *)
(***************************************************************************)
QSUB == <<"q", "s", "u", "b">>

\* OptToken with the bool test of line 100 forgotten: a bool prints as a value
OptToken_BoolAsValue(options_, options_map_, list_delimiter, key) ==
    IF Contains(QSUB, key) THEN <<>>
    ELSE IF HasKey(options_map_, key) /\ Get(options_map_, key) = ""
        THEN <<Str(Get(options_, key))>>
    ELSE IF HasKey(options_map_, key) /\ Get(options_, key).t = "list"
        THEN <<Get(options_map_, key) \o "=" \o Join(Get(options_, key).l, list_delimiter)>>
    ELSE IF HasKey(options_map_, key)
        THEN <<Get(options_map_, key) \o "=" \o Str(Get(options_, key))>>
    ELSE <<>>

\* the tokens one key appends to optstr: one loop iteration of make_optstr
OptToken(options_, options_map_, list_delimiter, key) ==
    IF Contains(QSUB, key) THEN <<>>
    ELSE IF HasKey(options_map_, key) /\ Get(options_map_, key) = ""
        THEN <<Str(Get(options_, key))>>
    ELSE IF HasKey(options_map_, key) /\ Get(options_, key).t = "list"
        THEN <<Get(options_map_, key) \o "=" \o Join(Get(options_, key).l, list_delimiter)>>
    ELSE IF HasKey(options_map_, key) /\ Get(options_, key).t # "bool"
        THEN <<Get(options_map_, key) \o "=" \o Str(Get(options_, key))>>
    ELSE IF HasKey(options_map_, key) /\ Truthy(Get(options_, key))
        THEN <<Get(options_map_, key)>>
    ELSE <<>>

\* OptOrder walking the flag map instead of the options
OptOrder_MapOrder(options_, options_map_) ==
    SelectSeq(Keys(options_map_), LAMBDA k : HasKey(options_, k))

\* the order in which the loop of make_optstr visits the keys
OptOrder(options_, options_map_) == Keys(options_)

\* the list optstr before the join
make_optlist(options_, options_map_, list_delimiter) ==
    LET order == OptOrder(options_, options_map_)
    IN  Flatten([i \in 1..Len(order) |->
                    OptToken(options_, options_map_, list_delimiter, order[i])])

make_optstr(options_, options_map_, list_delimiter) ==
    Join(make_optlist(options_, options_map_, list_delimiter), " ")

(***************************************************************************)
(* Character-level string helpers                                          *)
(***************************************************************************)
\* s.rstrip(c)
RECURSIVE RStrip(_, _)
RStrip(s, c) ==
    IF s # <<>> /\ s[Len(s)] = c THEN RStrip(SubSeq(s, 1, Len(s) - 1), c) ELSE s

\* s.lstrip(c)
RECURSIVE LStrip(_, _)
LStrip(s, c) ==
    IF s # <<>> /\ s[1] = c THEN LStrip(Tail(s), c) ELSE s

\* s.split(c): the sequence of the pieces of s between occurrences of c
RECURSIVE Split(_, _)
Split(s, c) ==
    IF \E i \in 1..Len(s) : s[i] = c
    THEN LET i == CHOOSE k \in 1..Len(s) : s[k] = c /\ \A j \in 1..(k - 1) : s[j] # c
         IN  <<SubSeq(s, 1, i - 1)>> \o Split(SubSeq(s, i + 1, Len(s)), c)
    ELSE <<s>>

(***************************************************************************)
(* The dictionary keys the code names                                      *)
(***************************************************************************)
K_qsub == <<"q", "s", "u", "b">>
K_qsub_N == <<"q", "s", "u", "b", "_", "N">>
K_qsub_walltime == <<"q", "s", "u", "b", "_", "w", "a", "l", "l", "t", "i", "m", "e">>
K_qsub_nodes == <<"q", "s", "u", "b", "_", "n", "o", "d", "e", "s">>
K_qsub_ppn == <<"q", "s", "u", "b", "_", "p", "p", "n">>
K_qsub_pmem == <<"q", "s", "u", "b", "_", "p", "m", "e", "m">>
K_qsub_q == <<"q", "s", "u", "b", "_", "q">>
K_qsub_M == <<"q", "s", "u", "b", "_", "M">>
K_qsub_m == <<"q", "s", "u", "b", "_", "m">>
K_qsub_mpi == <<"q", "s", "u", "b", "_", "m", "p", "i">>
K_qsub_np == <<"q", "s", "u", "b", "_", "n", "p">>
K_unknown == <<"u", "n", "k", "n", "o", "w", "n">>
K_job_string == <<"j", "o", "b", "_", "s", "t", "r", "i", "n", "g">>
K_module_name == <<"m", "o", "d", "u", "l", "e", "_", "n", "a", "m", "e">>
K_verbose == <<"v", "e", "r", "b", "o", "s", "e">>

(***************************************************************************)
(* submit(): lines 126-138, the rendering of the script.  The script is a  *)
(* sequence of chunks; every chunk but a job_string payload ends in "\n".  *)
(***************************************************************************)
Rendered(script) == [exc |-> "none", script |-> script]
RenderFails(e) == [exc |-> e, script |-> <<>>]

\* module_name.split('.')[0]
ModuleHead(module_name_) == Concat(Split(module_name_.l, ".")[1])

\* PmemLines without the test of line 128
PmemLines_Always(options_) ==
    <<"#PBS -l pmem=" \o IntToStr(IntOf(Get(options_, K_qsub_pmem))) \o "Gb\n">>

\* line 128-129: the optional memory directive
PmemLines(options_) ==
    IF Truthy(Get(options_, K_qsub_pmem))
    THEN <<"#PBS -l pmem=" \o IntToStr(IntOf(Get(options_, K_qsub_pmem))) \o "Gb\n">>
    ELSE <<>>

\* line 131-132: the optional mail directives
MailLines(options_) ==
    IF Truthy(Get(options_, K_qsub_M))
    THEN <<"#PBS -M " \o Str(Get(options_, K_qsub_M)) \o "\n",
           "#PBS -m " \o Str(Get(options_, K_qsub_m)) \o "\n">>
    ELSE <<>>

\* line 136-137: the optional MPI launch wrapper
MpiPrefix(options_) ==
    IF HasKey(options_, K_qsub_mpi) /\ Truthy(Get(options_, K_qsub_mpi))
    THEN "mpirun -n "
         \o (IF HasKey(options_, K_qsub_np)
             THEN Str(Get(options_, K_qsub_np))
             ELSE IntToStr(Get(options_, K_qsub_nodes).n * Get(options_, K_qsub_ppn).n))
         \o " "
    ELSE ""

\* line 133-138: the payload
Payload(options_, module_name_, job_string_, optstr_) ==
    IF Truthy(job_string_)
    THEN <<Str(job_string_)>>
    ELSE <<MpiPrefix(options_)
           \o "python -c \"import " \o ModuleHead(module_name_) \o "; "
           \o ModuleHead(module_name_) \o ".__run__()\" " \o optstr_ \o "\n">>

\* the keys lines 126-132 subscript: options[key] raises KeyError when absent
RequiredKeys(options_) ==
    {K_qsub_N, K_qsub_walltime, K_qsub_nodes, K_qsub_ppn, K_qsub_pmem, K_qsub_q,
     K_qsub_M}
    \cup (IF HasKey(options_, K_qsub_M) /\ Truthy(Get(options_, K_qsub_M))
          THEN {K_qsub_m} ELSE {})

RenderScript(options_, module_name_, job_string_, optstr_) ==
    IF module_name_.t # "chars"
    THEN RenderFails("AttributeError")      \* False.split('.')
    ELSE IF \E k \in RequiredKeys(options_) : ~HasKey(options_, k)
    THEN RenderFails("KeyError")
    ELSE Rendered(
        <<"#!/bin/bash\n",
          "##" \o ModuleHead(module_name_) \o " qsub script\n",
          "#PBS -S /bin/sh\n",
          "#PBS -N " \o Str(Get(options_, K_qsub_N)) \o "\n",
          "#PBS -l walltime=" \o Str(Get(options_, K_qsub_walltime)) \o "\n",
          "#PBS -V\n",
          "#PBS -l nodes=" \o Str(Get(options_, K_qsub_nodes)) \o ":ppn="
              \o Str(Get(options_, K_qsub_ppn)) \o "\n">>
        \o PmemLines(options_)
        \o <<"#PBS -q " \o Str(Get(options_, K_qsub_q)) \o "\n">>
        \o MailLines(options_)
        \o Payload(options_, module_name_, job_string_, optstr_))

\* SubmitArgError without the test of line 121
SubmitArgError_NoTypeCheck(options_map_, module_name_, job_string_) ==
    IF ~Truthy(job_string_) /\ Truthy(module_name_) /\ Len(options_map_) = 0
        THEN "UserWarning"
    ELSE "none"

\* line 121-124: the argument checks; "none" when both pass
SubmitArgError(options_map_, module_name_, job_string_) ==
    IF ~Truthy(module_name_) /\ ~Truthy(job_string_) THEN "TypeError"
    ELSE IF ~Truthy(job_string_) /\ Truthy(module_name_) /\ Len(options_map_) = 0
        THEN "UserWarning"
    ELSE "none"

\* the file names of lines 140-145
TempName(options_) == Str(Get(options_, K_qsub_N)) \o "_temp.pbs"
\* JobId cut at the last '.' instead of the first
JobId_LastDot(out_) ==
    LET parts == Split(RStrip(out_, "\n"), ".")
    IN  Concat(Flatten([i \in 1..(Len(parts) - 1) |->
                           IF i = 1 THEN parts[i] ELSE <<".">> \o parts[i]]))

\* out.rstrip('\n').split('.')[0]
JobId(out_) == Concat(Split(RStrip(out_, "\n"), ".")[1])
RecordName(options_, out_) == Str(Get(options_, K_qsub_N)) \o ".p" \o JobId(out_)

(***************************************************************************)
(* isPath.  The filesystem is the working directory CWD and the entries in *)
(* it: disk maps an entry's name to "dir" or "file".  The arguments tried  *)
(* hold no path separator, so every argument names an entry of CWD.        *)
(***************************************************************************)
CWD == <<"/", "w">>
SEP == <<"/">>

PathVal(t, e, s, l, g) == [t |-> t, e |-> e, s |-> s, l |-> l, g |-> g]
NoResult == PathVal("none", "", <<>>, <<>>, {})
PathStr(s) == PathVal("str", "", s, <<>>, {})          \* a str
PathList(l) == PathVal("list", "", <<>>, l, {})        \* a list, in order
\* the list glob.glob returns: its members, in the order os.listdir gives
PathGlob(g) == PathVal("glob", "", <<>>, <<>>, g)
\* the exception of line 87-90, with the string its message quotes
PathError(e, s) == PathVal("error", e, s, <<>>, {})

\* os.path.abspath(s) for s without a separator
Abspath(s) == IF s = <<>> THEN CWD ELSE CWD \o SEP \o s

\* os.path.split(s): with no separator in s the head is empty
PathHead(s) == <<>>
PathTail(s) == s

\* os.path.exists(p) and os.path.isdir(p) for an absolute path
Exists(p, disk_) == p = CWD \/ \E n \in DOMAIN disk_ : p = CWD \o SEP \o n
IsDir(p, disk_) ==
    p = CWD \/ \E n \in DOMAIN disk_ : p = CWD \o SEP \o n /\ disk_[n] = "dir"

\* fnmatch: the index of the ']' closing the class opened just before pat[i],
\* or 0 when the '[' is a plain character
ClassEnd(pat, i) ==
    LET j0 == IF i <= Len(pat) /\ pat[i] = "!" THEN i + 1 ELSE i
        j1 == IF j0 <= Len(pat) /\ pat[j0] = "]" THEN j0 + 1 ELSE j0
        ends == {j \in j1..Len(pat) : pat[j] = "]"}
    IN  IF ends = {} THEN 0 ELSE CHOOSE j \in ends : \A k \in ends : j <= k

\* fnmatch.fnmatch(name, pat)
RECURSIVE FnMatch(_, _)
FnMatch(name, pat) ==
    IF pat = <<>> THEN name = <<>>
    ELSE IF pat[1] = "*"
        THEN \E k \in 0..Len(name) :
                FnMatch(SubSeq(name, k + 1, Len(name)), Tail(pat))
    ELSE IF pat[1] = "?"
        THEN name # <<>> /\ FnMatch(Tail(name), Tail(pat))
    ELSE IF pat[1] = "[" /\ ClassEnd(pat, 2) # 0
        THEN LET j == ClassEnd(pat, 2)
                 negated == pat[2] = "!"
                 stuff == Range(SubSeq(pat, IF negated THEN 3 ELSE 2, j - 1))
             IN  /\ name # <<>>
                 /\ (name[1] \in stuff) # negated
                 /\ FnMatch(Tail(name), SubSeq(pat, j + 1, Len(pat)))
    ELSE name # <<>> /\ name[1] = pat[1] /\ FnMatch(Tail(name), Tail(pat))

\* glob.glob(dir + os.path.sep + pattern) for an existing directory dir
Glob(dir, pattern, disk_) ==
    IF dir = CWD
    THEN {CWD \o SEP \o n : n \in {m \in DOMAIN disk_ : FnMatch(m, pattern)}}
    ELSE {}

\* ExistingPath without the isdir test of line 84
ExistingPath_NoSep(s, disk_) == PathStr(Abspath(s))

\* line 84-86: the value for a string that names an existing entry
ExistingPath(s, disk_) ==
    IF IsDir(Abspath(s), disk_) THEN PathStr(Abspath(s) \o SEP)
    ELSE PathStr(Abspath(s))

\* line 87-90
NoSuchPath(argparse_, s) ==
    PathError(IF argparse_ THEN "ArgumentTypeError" ELSE "ValueError", s)

\* line 73-90 for a string without ','
isPathOne(s, disk_, argparse_) ==
    IF s = <<>> THEN PathStr(s)
    ELSE IF "*" \in Range(s) /\ Exists(Abspath(PathHead(s)), disk_)
        THEN PathGlob(Glob(Abspath(PathHead(s)), PathTail(s), disk_))
    ELSE IF "*" \notin Range(s) /\ Exists(Abspath(s), disk_)
        THEN ExistingPath(s, disk_)
    ELSE NoSuchPath(argparse_, s)

\* the loop of line 78-79 (and 70-71): the first exception leaves the call
PathListOf(results) ==
    IF \E i \in 1..Len(results) : results[i].t = "error"
    THEN results[CHOOSE i \in 1..Len(results) :
                    /\ results[i].t = "error"
                    /\ \A j \in 1..(i - 1) : results[j].t # "error"]
    ELSE PathList(results)

\* line 75-80: the parts of a string with ','
ListParts(s) == Split(RStrip(LStrip(s, "["), "]"), ",")

\* isPath(string) for a str
isPath(s, disk_, argparse_) ==
    IF s = <<>> THEN PathStr(s)
    ELSE IF "," \in Range(s)
        THEN PathListOf([i \in 1..Len(ListParts(s)) |->
                            isPathOne(ListParts(s)[i], disk_, argparse_)])
    ELSE isPathOne(s, disk_, argparse_)

\* line 69-72: isPath(string) for a list of strs
isPathList(l, disk_, argparse_) ==
    PathListOf([i \in 1..Len(l) |-> isPath(l[i], disk_, argparse_)])

(***************************************************************************)
(* The inputs the behaviours draw from                                     *)
(***************************************************************************)
SeqsUpTo(S, n) == UNION {[1..k -> S] : k \in 0..n}

\* what qsub may print: job ids, host names, dots and line ends
OutChars == {"7", ".", "\n"}
Outputs == SeqsUpTo(OutChars, MaxOut)

M_foo == <<"f", "o", "o">>
M_pkg_mod == <<"p", "k", "g", ".", "m", "o", "d">>
M_pyqsub == <<"p", "y", "q", "s", "u", "b">>
ModuleNames == {PyBool(FALSE), PyChars(M_foo), PyChars(M_pkg_mod)}
JobStrings == {PyBool(FALSE), PyStr("echo hi")}

PmemChoices ==
    {<<>>} \cup {<< <<K_qsub_pmem, PyFloat(h)>> >> : h \in 0..MaxPmem}
MailChoices == {PyBool(FALSE), PyStr("me@x")}
MpiChoices ==
    {<<>>,
     << <<K_qsub_mpi, PyBool(TRUE)>> >>,
     << <<K_qsub_mpi, PyBool(TRUE)>>, <<K_qsub_np, PyInt(3)>> >>}
\* program options with the flag map that goes with them
ProgramChoices ==
    {[opts |-> <<>>, map |-> <<>>],
     [opts |-> << <<K_verbose, PyBool(TRUE)>> >>, map |-> <<>>],
     [opts |-> << <<K_verbose, PyBool(TRUE)>> >>,
      map |-> << <<K_verbose, "--verbose">> >>]}

SubmitOptions(pmem, mail, mpi, prog) ==
    << <<K_qsub_N, PyStr("job")>>,
       <<K_qsub_walltime, PyStr("24:00:00")>>,
       <<K_qsub_nodes, PyInt(2)>>,
       <<K_qsub_ppn, PyInt(8)>> >>
    \o pmem
    \o << <<K_qsub_q, PyStr("auto")>>,
          <<K_qsub_M, mail>>,
          <<K_qsub_m, PyStr("bae")>> >>
    \o mpi \o prog

NoFiles == [n \in {} |-> ""]

\* the state before any call, but for the arguments
Blank ==
    /\ optstr = ""
    /\ optlist = <<>>
    /\ qsub_script = <<>>
    /\ files = NoFiles
    /\ qsubCalls = 0
    /\ qsubExit = "none"
    /\ out = <<>>
    /\ exc = "none"
    /\ ret = "none"

NoPath ==
    /\ string = <<>>
    /\ disk = NoFiles
    /\ disk0 = NoFiles
    /\ pathResult = NoResult

\* a direct call submit(options, options_map, module_name, job_string)
InitSubmit ==
    /\ entry = "submit"
    /\ pc = "submit"
    /\ \E pmem \in PmemChoices, mail \in MailChoices, mpi \in MpiChoices,
          prog \in ProgramChoices :
          /\ options = SubmitOptions(pmem, mail, mpi, prog.opts)
          /\ options_map = prog.map
    /\ module_name \in ModuleNames
    /\ job_string \in JobStrings
    /\ ARGPARSE = TRUE
    /\ inputArgs = [job_string |-> PyBool(FALSE), module_name |-> PyBool(FALSE)]
    /\ Blank
    /\ NoPath

\* a run of the command line: python pyqsub.py [-j ...] [-m ...]
InitRun ==
    /\ entry = "__run__"
    /\ pc = "start"
    /\ options = <<>>
    /\ options_map = <<>>
    /\ module_name = PyBool(FALSE)
    /\ job_string = PyBool(FALSE)
    /\ ARGPARSE \in BOOLEAN
    /\ inputArgs \in [job_string : JobStrings, module_name : ModuleNames]
    /\ Blank
    /\ NoPath

Init == InitSubmit \/ InitRun

(***************************************************************************)
(* submit()                                                                *)
(***************************************************************************)
\* line 121-139: the argument checks, make_optstr and the rendering
SubmitRender ==
    /\ pc = "submit"
    /\ LET err == SubmitArgError(options_map, module_name, job_string)
           ol == make_optlist(options, options_map, ",")
           os == make_optstr(options, options_map, ",")
           r == RenderScript(options, module_name, job_string, os)
       IN  IF err # "none"
           THEN /\ exc' = err
                /\ pc' = "raised"
                /\ UNCHANGED <<optstr, optlist, qsub_script>>
           ELSE /\ optstr' = os
                /\ optlist' = ol
                /\ qsub_script' = r.script
                /\ exc' = r.exc
                /\ pc' = IF r.exc = "none" THEN "rendered" ELSE "raised"
    /\ UNCHANGED <<entry, options, options_map, module_name, job_string, files,
                   qsubCalls, qsubExit, out, ret, ARGPARSE, inputArgs, string,
                   disk, disk0, pathResult>>

WithFile(fs, name, content, mode) ==
    [n \in DOMAIN fs \cup {name} |->
        IF n = name THEN [content |-> content, mode |-> mode] ELSE fs[n]]
WithoutFile(fs, name) == [n \in DOMAIN fs \ {name} |-> fs[n]]

\* line 140: open(qsub_N + '_temp.pbs', 'w').write(qsub_script)
WriteScript ==
    /\ pc = "rendered"
    /\ files' = WithFile(files, TempName(options), qsub_script, "default")
    /\ pc' = "written"
    /\ UNCHANGED <<entry, options, options_map, module_name, job_string, optstr,
                   optlist, qsub_script, qsubCalls, qsubExit, out, exc, ret,
                   ARGPARSE, inputArgs, string, disk, disk0, pathResult>>

\* line 141: os.chmod(..., S_IRWXO | S_IRWXG | S_IRWXU)
Chmod ==
    /\ pc = "written"
    /\ files' = WithFile(files, TempName(options),
                         files[TempName(options)].content, "rwxrwxrwx")
    /\ pc' = "executable"
    /\ UNCHANGED <<entry, options, options_map, module_name, job_string, optstr,
                   optlist, qsub_script, qsubCalls, qsubExit, out, exc, ret,
                   ARGPARSE, inputArgs, string, disk, disk0, pathResult>>

\* line 142: subprocess.Popen fails, there is no qsub executable to start
QsubMissing ==
    /\ pc = "executable"
    /\ qsubCalls' = qsubCalls + 1
    /\ exc' = "OSError"
    /\ pc' = "raised"
    /\ UNCHANGED <<entry, options, options_map, module_name, job_string, optstr,
                   optlist, qsub_script, files, qsubExit, out, ret, ARGPARSE,
                   inputArgs, string, disk, disk0, pathResult>>

\* line 142-143: qsub runs to its end; communicate() returns what it printed.
\* The exit status is the process's, which submit() never reads.
QsubRuns ==
    /\ pc = "executable"
    /\ qsubCalls' = qsubCalls + 1
    /\ out' \in Outputs
    /\ qsubExit' \in {"0", "1"}
    /\ pc' = "communicated"
    /\ UNCHANGED <<entry, options, options_map, module_name, job_string, optstr,
                   optlist, qsub_script, files, exc, ret, ARGPARSE, inputArgs,
                   string, disk, disk0, pathResult>>

\* line 145-146: os.rename(temp, qsub_N + '.p' + id); return 0
RenameAndReturn ==
    /\ pc = "communicated"
    /\ files' = WithFile(WithoutFile(files, TempName(options)),
                         RecordName(options, out),
                         files[TempName(options)].content,
                         files[TempName(options)].mode)
    /\ ret' = "0"
    /\ pc' = "done"
    /\ UNCHANGED <<entry, options, options_map, module_name, job_string, optstr,
                   optlist, qsub_script, qsubCalls, qsubExit, out, exc, ARGPARSE,
                   inputArgs, string, disk, disk0, pathResult>>

(***************************************************************************)
(* __run__()                                                               *)
(***************************************************************************)
\* line 241-252 and 328-330: the dict the argparse branch hands to submit()
RunOptions(args) ==
    << <<K_job_string, args.job_string>>,
       <<K_module_name, args.module_name>>,
       <<K_qsub, PyBool(TRUE)>>,
       <<K_qsub_nodes, PyInt(1)>>,
       <<K_qsub_ppn, PyInt(8)>>,
       <<K_qsub_pmem, PyInt(1)>>,
       <<K_qsub_M, PyBool(FALSE)>>,
       <<K_qsub_m, PyStr("bae")>>,
       <<K_qsub_N, IF Truthy(args.module_name) THEN args.module_name
                   ELSE PyChars(M_pyqsub)>>,
       <<K_qsub_walltime, PyStr("24:00:00")>>,
       <<K_qsub_q, PyStr("auto")>>,
       <<K_unknown, PyStr("")>> >>

\* line 186-331 up to the call of submit().  Without argparse line 314 reads
\* the names description and argparsedescription, which nothing defines.
RunError(argparse_, args) == IF argparse_ THEN "none" ELSE "NameError"

RunParse ==
    /\ entry = "__run__"
    /\ pc = "start"
    /\ IF RunError(ARGPARSE, inputArgs) # "none"
       THEN /\ exc' = RunError(ARGPARSE, inputArgs)
            /\ pc' = "run_raised"
            /\ UNCHANGED <<options, options_map, module_name, job_string>>
       ELSE /\ options' = RunOptions(inputArgs)
            /\ options_map' = << <<K_unknown, "">> >>
            /\ module_name' = Get(RunOptions(inputArgs), K_qsub_N)
            /\ job_string' = Get(RunOptions(inputArgs), K_job_string)
            /\ pc' = "submit"
            /\ exc' = "none"
    /\ UNCHANGED <<entry, optstr, optlist, qsub_script, files, qsubCalls,
                   qsubExit, out, ret, ARGPARSE, inputArgs, string, disk, disk0,
                   pathResult>>

Next ==
    \/ RunParse
    \/ SubmitRender
    \/ WriteScript
    \/ Chmod
    \/ QsubMissing
    \/ QsubRuns
    \/ RenameAndReturn

Spec == Init /\ [][Next]_vars

(***************************************************************************)
(* Properties of submit() and __run__(), checked under Spec                *)
(***************************************************************************)
\* submit() has been entered
InSubmit == pc \notin {"start", "run_raised"}

\* the first line of what qsub printed
FirstLine(out_) == Split(out_, "\n")[1]

\* C1: a submit() call with neither module_name nor job_string raises the
\* configuration error (TypeError) at once: no file is ever created, qsub is
\* never started and nothing is returned.
C1_NeitherGivenFailsBeforeWrite ==
    (InSubmit /\ ~Truthy(module_name) /\ ~Truthy(job_string))
    => /\ files = NoFiles
       /\ qsubCalls = 0
       /\ ret = "none"
       /\ pc \in {"submit", "raised"}
       /\ pc = "raised" => exc = "TypeError"

C1_Witness ==
    /\ entry = "submit" /\ pc = "raised" /\ exc = "TypeError"
    /\ ~Truthy(module_name) /\ ~Truthy(job_string)

\* C2: a submit() call with a module_name, no job_string and an empty flag
\* map is never ended by the warning: UserWarning does not leave the call.
C2_EmptyMapOnlyWarns ==
    (InSubmit /\ Truthy(module_name) /\ ~Truthy(job_string) /\ Len(options_map) = 0)
    => ~(pc = "raised" /\ exc = "UserWarning")

\* C4: once submit() has returned after a qsub that exited 0 and whose first
\* output line is <id>.<host>, the only file left is <job-name>.p<id>, with
\* <id> the text before the first '.' of that first line; it holds the script
\* and <job-name>_temp.pbs is gone.  Multi-line output included.
C4_RenamedToJobId ==
    (pc = "done" /\ qsubExit = "0" /\ Contains(<<".">>, FirstLine(out)))
    => LET id == Concat(Split(FirstLine(out), ".")[1])
           record == Str(Get(options, K_qsub_N)) \o ".p" \o id
       IN  /\ DOMAIN files = {record}
           /\ files[record].content = qsub_script
           /\ TempName(options) \notin DOMAIN files

\* a successful submission that printed more than one line
C4_Witness ==
    /\ pc = "done" /\ qsubExit = "0"
    /\ Contains(<<".">>, FirstLine(out))
    /\ Len(Split(RStrip(out, "\n"), "\n")) > 1
    /\ Contains(<<".">>, Split(RStrip(out, "\n"), "\n")[2])

\* C5: qsub is started at most once per call, and after a qsub that exited
\* non-zero submit() never returns its success status.
C5_QsubFailurePropagates ==
    /\ qsubCalls <= 1
    /\ qsubExit = "1" => ret = "none"

\* C6: a command line with neither -j nor -m never reaches submit(): the run
\* stops in __run__ and writes no file.
C6_UsageErrorWithoutJobOrModule ==
    (entry = "__run__" /\ ~Truthy(inputArgs.job_string)
        /\ ~Truthy(inputArgs.module_name))
    => /\ pc \in {"start", "run_raised"}
       /\ files = NoFiles

\* C7: a submit() call with a job_string, whatever the module_name, is not
\* stopped by the argument checks or by the rendering, and the rendered script
\* ends in exactly the job_string, with no generated invocation in it.
C7_JobStringIsThePayload ==
    (InSubmit /\ pc # "submit" /\ Truthy(job_string)
        /\ \A k \in RequiredKeys(options) : HasKey(options, k))
    => /\ exc \in {"none", "OSError"}
       /\ qsub_script # <<>>
       /\ qsub_script[Len(qsub_script)] = Str(job_string)
       /\ \A m \in {n \in ModuleNames \cup {PyChars(M_pyqsub)} : n.t = "chars"} :
             Payload(options, m, PyBool(FALSE), optstr)[1] \notin Range(qsub_script)

\* the memory directive for n Gb
MemLine(n) == "#PBS -l pmem=" \o IntToStr(n) \o "Gb\n"
MemLines == {MemLine(n) : n \in 0..(MaxPmem + 1)}

\* the call got past the argument checks and the first line of the script
ReachedMemory ==
    /\ InSubmit /\ pc # "submit"
    /\ exc \notin {"TypeError", "UserWarning", "AttributeError"}

\* C8 as stated: with the memory option 0 or absent the script is rendered
\* and holds no memory line.
C8_AbsentMemoryStillRenders ==
    (ReachedMemory
        /\ (~HasKey(options, K_qsub_pmem) \/ ~Truthy(Get(options, K_qsub_pmem)))
        /\ \A k \in RequiredKeys(options) \ {K_qsub_pmem} : HasKey(options, k))
    => /\ exc # "KeyError"
       /\ qsub_script # <<>>
       /\ Range(qsub_script) \cap MemLines = {}

\* C8 amended: a non-zero memory value puts the one line "#PBS -l pmem=<n>Gb"
\* in the script, n its integer part (pmem=2Gb for 2); the value 0 gives a
\* script without a memory line; an absent memory option ends the call with
\* KeyError before anything is rendered or written.
C8_MemoryDirective ==
    (ReachedMemory /\ \A k \in RequiredKeys(options) \ {K_qsub_pmem} : HasKey(options, k))
    => IF ~HasKey(options, K_qsub_pmem)
       THEN /\ pc = "raised" /\ exc = "KeyError"
            /\ qsub_script = <<>>
            /\ files = NoFiles
       ELSE LET pmem == Get(options, K_qsub_pmem)
            IN  /\ exc # "KeyError"
                /\ qsub_script # <<>>
                /\ Range(qsub_script) \cap MemLines =
                      IF pmem.n = 0 THEN {} ELSE {MemLine(IntOf(pmem))}
                /\ pmem = PyFloat(4) => "#PBS -l pmem=2Gb\n" \in Range(qsub_script)
                /\ Cardinality({i \in 1..Len(qsub_script) :
                                   qsub_script[i] \in MemLines}) <= 1

\* a script rendered for 2 Gb
C8_Witness ==
    /\ pc = "rendered"
    /\ HasKey(options, K_qsub_pmem)
    /\ Get(options, K_qsub_pmem) = PyFloat(4)
    /\ "#PBS -l pmem=2Gb\n" \in Range(qsub_script)

(***************************************************************************)
(* make_optstr() on its own: the dicts are drawn from small sets           *)
(***************************************************************************)
K_a == <<"a">>
K_b == <<"b">>
OptKeys == {K_a, K_b, K_qsub}
OptValues == {PyBool(TRUE), PyBool(FALSE), PyStr("s"), PyList(<<"x", "y">>)}
\* a key's flag is none (the value is positional) or its long form, --key

OptionDicts ==
    {d \in SeqsUpTo(OptKeys \X OptValues, MaxOpts) : DistinctKeys(d)}
FlagDicts ==
    {d \in SeqsUpTo(OptKeys \X {"", "--"}, MaxOpts) : DistinctKeys(d)}
\* the flag dict d with every "--" spelled out as --key
SpellFlags(d) ==
    [i \in 1..Len(d) |->
        <<d[i][1], IF d[i][2] = "" THEN "" ELSE d[i][2] \o Concat(d[i][1])>>]

InitOpt ==
    /\ entry = "make_optstr"
    /\ pc = "call"
    /\ options \in OptionDicts
    /\ \E d \in FlagDicts : options_map = SpellFlags(d)
    /\ module_name = PyBool(FALSE)
    /\ job_string = PyBool(FALSE)
    /\ ARGPARSE = TRUE
    /\ inputArgs = [job_string |-> PyBool(FALSE), module_name |-> PyBool(FALSE)]
    /\ Blank
    /\ NoPath

\* optstr = make_optstr(options, options_map)
CallMakeOptstr ==
    /\ entry = "make_optstr"
    /\ pc = "call"
    /\ optlist' = make_optlist(options, options_map, ",")
    /\ optstr' = make_optstr(options, options_map, ",")
    /\ pc' = "returned"
    /\ UNCHANGED <<entry, options, options_map, module_name, job_string,
                   qsub_script, files, qsubCalls, qsubExit, out, exc, ret,
                   ARGPARSE, inputArgs, string, disk, disk0, pathResult>>

SpecOpt == InitOpt /\ [][CallMakeOptstr]_vars

(***************************************************************************)
(* Properties of make_optstr(), checked under SpecOpt                      *)
(***************************************************************************)
HasQsubPrefix(key) == Len(key) >= Len(QSUB) /\ SubSeq(key, 1, Len(QSUB)) = QSUB

\* the token the documented rules give a key that is in both dicts
DocToken(key) ==
    LET flag == Get(options_map, key)
        value == Get(options, key)
    IN  IF flag = "" THEN <<Str(value)>>
        ELSE IF value.t = "list" THEN <<flag \o "=" \o Join(value.l, ",")>>
        ELSE IF value.t # "bool" THEN <<flag \o "=" \o Str(value)>>
        ELSE IF value.b THEN <<flag>>
        ELSE <<>>

DocTokens(keys) == Flatten([i \in 1..Len(keys) |-> DocToken(keys[i])])

\* C3 as stated: one token for each key that is in the options, is mapped and
\* has no qsub prefix, the tokens in the order of the flag map.
C3_OneTokenPerKeyInMapOrder ==
    pc = "returned"
    => LET elig == SelectSeq(Keys(options_map),
                     LAMBDA k : HasKey(options, k) /\ ~HasQsubPrefix(k))
       IN  /\ Len(optlist) = Len(elig)
           /\ optlist = DocTokens(elig)

\* a key that is in both dicts, has no 'qsub' in it and is not a false bool
\* behind a flag
Emits(key) ==
    /\ HasKey(options, key) /\ HasKey(options_map, key)
    /\ ~Contains(QSUB, key)
    /\ ~(Get(options, key) = PyBool(FALSE) /\ Get(options_map, key) # "")

\* C3 amended: one token for each key that is in the options, is mapped, has
\* no 'qsub' in it and is not a boolean false behind a non-empty flag; the
\* tokens follow the iteration order of the options, joined by single spaces.
C3_OneTokenPerKeyInOptionsOrder ==
    pc = "returned"
    => LET emitting == SelectSeq(Keys(options), Emits)
       IN  /\ Len(optlist) = Len(emitting)
           /\ optlist = DocTokens(emitting)
           /\ optstr = Join(optlist, " ")

\* two emitting keys that the two dicts hold in opposite orders
C3_Witness ==
    /\ pc = "returned"
    /\ Len(optlist) = 2
    /\ \E i, j \in 1..Len(options), m, n \in 1..Len(options_map) :
          /\ i < j /\ m < n
          /\ options[i][1] = options_map[n][1]
          /\ options[j][1] = options_map[m][1]

\* the keys whose value is a bool and whose flag is not empty
BoolFlagKeys ==
    {k \in Range(Keys(options)) :
        /\ Get(options, k).t = "bool"
        /\ HasKey(options_map, k) /\ Get(options_map, k) # ""}

\* what C9 says of key k: true gives the bare flag, false gives nothing
BareFlagOrNothing(k) ==
    LET flag == Get(options_map, k)
    IN  /\ Cardinality({i \in 1..Len(optlist) : optlist[i] = flag})
              = IF Get(options, k).b THEN 1 ELSE 0
        /\ flag \o "=True" \notin Range(optlist)
        /\ flag \o "=False" \notin Range(optlist)

\* C9 as stated: every bool-valued key with a non-empty flag renders as the
\* bare flag when true and as nothing when false.
C9_BoolRendersBareFlag ==
    pc = "returned" => \A k \in BoolFlagKeys : BareFlagOrNothing(k)

\* C9 amended: the same, for the keys without 'qsub' in them; a key with
\* 'qsub' in it renders nothing, true or false.
C9_BoolRendersBareFlagUnlessQsub ==
    pc = "returned"
    => \A k \in BoolFlagKeys :
          IF Contains(QSUB, k)
          THEN Get(options_map, k) \notin Range(optlist)
          ELSE BareFlagOrNothing(k)

\* a true bool behind a flag that renders bare, next to another option
C9_Witness ==
    /\ pc = "returned"
    /\ Len(options) = 2
    /\ \E k \in BoolFlagKeys :
          /\ ~Contains(QSUB, k) /\ Get(options, k).b
          /\ Get(options_map, k) \in Range(optlist)

(***************************************************************************)
(* isPath() on its own, over every small argument and directory content    *)
(***************************************************************************)
PathChars == {"a", "b", ",", "*", "[", "]"}
DiskNames == {<<"a">>, <<"b">>, <<"a", "b">>}
Disks == UNION {[names -> {"dir", "file"}] : names \in SUBSET DiskNames}

InitPath ==
    /\ entry = "isPath"
    /\ pc = "call"
    /\ string \in SeqsUpTo(PathChars, MaxStr)
    /\ disk \in Disks
    /\ disk0 = disk
    /\ pathResult = NoResult
    /\ ARGPARSE \in BOOLEAN
    /\ options = <<>>
    /\ options_map = <<>>
    /\ module_name = PyBool(FALSE)
    /\ job_string = PyBool(FALSE)
    /\ inputArgs = [job_string |-> PyBool(FALSE), module_name |-> PyBool(FALSE)]
    /\ Blank

\* pathResult = isPath(string): the call only reads the filesystem
CallIsPath ==
    /\ entry = "isPath"
    /\ pc = "call"
    /\ pathResult' = isPath(string, disk, ARGPARSE)
    /\ pc' = "returned"
    /\ UNCHANGED <<entry, options, options_map, module_name, job_string, optstr,
                   optlist, qsub_script, files, qsubCalls, qsubExit, out, exc,
                   ret, ARGPARSE, inputArgs, string, disk, disk0>>

SpecPath == InitPath /\ [][CallIsPath]_vars

(***************************************************************************)
(* Properties of isPath(), checked under SpecPath                          *)
(***************************************************************************)
NamesDir(s) == s \in DOMAIN disk /\ disk[s] = "dir"
NamesFile(s) == s \in DOMAIN disk /\ disk[s] = "file"
AbsoluteWithSep(s) == PathStr(<<"/", "w", "/">> \o s \o <<"/">>)
Absolute(s) == PathStr(<<"/", "w", "/">> \o s)
IsPathError(r) == r.t = "error"

\* the parts of a comma-separated string, enclosing brackets apart
PartsOf(s) == Split(RStrip(LStrip(s, "["), "]"), ",")

\* what a part of a list normalizes to
NormalPart(p) ==
    IF p = <<>> THEN PathStr(p)
    ELSE IF "*" \in Range(p)
        THEN PathGlob({<<"/", "w", "/">> \o n : n \in {m \in DOMAIN disk : FnMatch(m, p)}})
    ELSE IF NamesDir(p) THEN AbsoluteWithSep(p)
    ELSE IF NamesFile(p) THEN Absolute(p)
    ELSE PathError(IF ARGPARSE THEN "ArgumentTypeError" ELSE "ValueError", p)

\* the list clause of C10
ListOfNormalParts(s, r) ==
    LET parts == PartsOf(s)
    IN  IF \E i \in 1..Len(parts) : IsPathError(NormalPart(parts[i]))
        THEN IsPathError(r)
        ELSE r = PathList([i \in 1..Len(parts) |-> NormalPart(parts[i])])

C11_RecordOnlyAfterSuccess ==
    InSubmit
    => /\ \A f \in DOMAIN files \ {TempName(options)} :
             /\ qsubCalls = 1
             /\ qsubExit = "0"
             /\ Split(FirstLine(out), ".")[1] # <<>>
             /\ f = Str(Get(options, K_qsub_N)) \o ".p"
                        \o Concat(Split(FirstLine(out), ".")[1])
       /\ (qsubExit = "1" \/ exc = "OSError")
              => DOMAIN files = {TempName(options)}

====
